---- MODULE Spec2Model ----
(***************************************************************************)
(* kafkainspect.py: the deduplication scan of main(), its fingerprint      *)
(* extraction (get_field_from_json, hash_payload), the two duplicate       *)
(* stores (the in-memory set `seen`, the sqlite table `seen`), the output  *)
(* file and the close-on-exit sequence.                                    *)
(*                                                                         *)
(* Byte strings are records [kind, id, doc]:                               *)
(*   kind "none"        Python None (an absent key or value)               *)
(*   kind "raw"         text that is not JSON, told apart by id            *)
(*   kind "undecodable" bytes that are not valid UTF-8, told apart by id   *)
(*   kind "json"        a JSON text, doc is its syntax tree                *)
(* A JSON tree node is [t, v, m]: t the type, v the scalar, m the members  *)
(* of an object as a sequence of <<key, node>> in the order of the text,   *)
(* the elements of an array as <<(empty key), node>>.                      *)
(* Strings that the code splits or sorts are sequences of characters.      *)
(***************************************************************************)
EXTENDS Integers, Sequences, FiniteSets, TLC

\* Bounds of the model.
MaxRecords == 3
MaxBudget == 3
MaxInvocations == 2
MaxRerunRecords == 2
MaxFieldRecords == 2
MaxSilentRecords == 2
MaxSinkRecords == 2
MaxInspectRecords == 3
MaxPeek == 2
MaxPolls == 4
MaxBackendRecords == 2

-----------------------------------------------------------------------------
\* JSON texts and byte strings

Alphabet == <<".", "a", "i", "x", "z">>

NullNode == [t |-> "null", v |-> 0, m |-> <<>>]
Num(n) == [t |-> "num", v |-> n, m |-> <<>>]
Obj(members) == [t |-> "obj", v |-> 0, m |-> members]
Str(n) == [t |-> "str", v |-> n, m |-> <<>>]
Bool(n) == [t |-> "bool", v |-> n, m |-> <<>>]
Arr(elements) ==
    [t |-> "arr", v |-> 0, m |-> [n \in 1..Len(elements) |-> << <<>>, elements[n] >>]]

None == [kind |-> "none", id |-> 0, doc |-> NullNode]
Raw(n) == [kind |-> "raw", id |-> n, doc |-> NullNode]
Undecodable(n) == [kind |-> "undecodable", id |-> n, doc |-> NullNode]
Json(node) == [kind |-> "json", id |-> 0, doc |-> node]

\* The code point order of str comparison, on the characters of Alphabet.
CharRank(c) == CHOOSE n \in 1..Len(Alphabet) : Alphabet[n] = c

RECURSIVE StrLess(_, _)
StrLess(a, b) ==
    IF a = <<>> THEN b # <<>>
    ELSE IF b = <<>> THEN FALSE
    ELSE IF Head(a) = Head(b) THEN StrLess(Tail(a), Tail(b))
    ELSE CharRank(Head(a)) < CharRank(Head(b))

\* str.split(sep): the pieces of s between the occurrences of sep.
RECURSIVE Split(_, _)
Split(s, sep) ==
    IF \A n \in 1..Len(s) : s[n] # sep THEN <<s>>
    ELSE LET n == CHOOSE k \in 1..Len(s) :
                      s[k] = sep /\ \A j \in 1..(k - 1) : s[j] # sep
         IN  <<SubSeq(s, 1, n - 1)>> \o Split(SubSeq(s, n + 1, Len(s)), sep)

\* dict[key] = value on an insertion-ordered dict: a key already there keeps
\* its place and takes the new value.
DictPut(d, key, value) ==
    IF \E n \in 1..Len(d) : d[n][1] = key
    THEN [n \in 1..Len(d) |-> IF d[n][1] = key THEN <<key, value>> ELSE d[n]]
    ELSE Append(d, <<key, value>>)

\* The Python value json.loads builds from a syntax tree: objects become
\* dicts (the last of several equal keys wins).
RECURSIVE Parse(_)
RECURSIVE ParseMembers(_, _)
ParseMembers(members, d) ==
    IF members = <<>> THEN d
    ELSE ParseMembers(Tail(members),
                      DictPut(d, Head(members)[1], Parse(Head(members)[2])))
Parse(node) ==
    IF node.t = "obj" THEN Obj(ParseMembers(node.m, <<>>))
    ELSE IF node.t = "arr"
    THEN [node EXCEPT !.m = [n \in 1..Len(node.m) |-> << <<>>, Parse(node.m[n][2]) >>]]
    ELSE node

\* json.loads(payload): TypeError for None, UnicodeDecodeError for bytes that
\* are not UTF-8, JSONDecodeError for text that is not JSON.
json_loads(payload) ==
    CASE payload.kind = "none" -> [exc |-> "TypeError", data |-> NullNode]
      [] payload.kind = "undecodable" -> [exc |-> "UnicodeDecodeError", data |-> NullNode]
      [] payload.kind = "raw" -> [exc |-> "JSONDecodeError", data |-> NullNode]
      [] OTHER -> [exc |-> "", data |-> Parse(payload.doc)]

\* dict.get(key): the value, or None (NullNode) when the key is missing.
DictGet(data, key) ==
    IF \E n \in 1..Len(data.m) : data.m[n][1] = key
    THEN data.m[CHOOSE n \in 1..Len(data.m) : data.m[n][1] = key][2]
    ELSE NullNode

\* (variant: the members stay in the order of the dict)
SortMembers_Unsorted(d) == d
\* sorted(): the members of a dict ordered by key.
RECURSIVE SortMembers(_)
SortMembers(d) ==
    IF d = <<>> THEN <<>>
    ELSE LET n == CHOOSE k \in 1..Len(d) :
                      \A j \in 1..Len(d) : j = k \/ StrLess(d[k][1], d[j][1])
         IN  <<d[n]>> \o SortMembers(SubSeq(d, 1, n - 1) \o SubSeq(d, n + 1, Len(d)))

\* json.dumps(data, sort_keys=True): the text with every object's keys sorted.
RECURSIVE json_dumps(_)
RECURSIVE DumpMembers(_)
DumpMembers(d) ==
    IF d = <<>> THEN <<>>
    ELSE <<<<Head(d)[1], json_dumps(Head(d)[2])>>>> \o DumpMembers(Tail(d))
json_dumps(data) ==
    IF data.t = "obj" THEN Obj(DumpMembers(SortMembers(data.m)))
    ELSE IF data.t = "arr" THEN [data EXCEPT !.m = DumpMembers(data.m)]
    ELSE data

\* The for loop of get_field_from_json: [found, data].
RECURSIVE Traverse(_, _)
Traverse(data, keys) ==
    IF keys = <<>> THEN [found |-> TRUE, data |-> data]
    ELSE IF data.t # "obj" THEN [found |-> FALSE, data |-> NullNode]
    ELSE LET next == DictGet(data, Head(keys))
         IN  IF next.t = "null" THEN [found |-> FALSE, data |-> NullNode]
             ELSE Traverse(next, Tail(keys))

\* The exceptions get_field_from_json catches.
Caught == {"JSONDecodeError", "AttributeError"}

\* get_field_from_json(payload, field_path): [exc, ret]; exc is the exception
\* that escapes it ("" when it returns), ret the bytes returned or None.
get_field_from_json(payload, field_path) ==
    LET loaded == json_loads(payload)
        walked == Traverse(loaded.data, Split(field_path, "."))
    IN  IF loaded.exc \in Caught THEN [exc |-> "", ret |-> None]
        ELSE IF loaded.exc # "" THEN [exc |-> loaded.exc, ret |-> None]
        ELSE IF ~walked.found THEN [exc |-> "", ret |-> None]
        ELSE [exc |-> "", ret |-> Json(json_dumps(walked.data))]

\* hash_payload(payload): the SHA-256 digest, one token per byte string.
hash_payload(payload) == <<"sha256", payload>>

-----------------------------------------------------------------------------
\* The command line and the topic

I == <<"i">>
X == <<"x">>

\* {"i":1,"x":2}, {"x":3,"i":1} and {"x":{"i":1}}
JA == Json(Obj(<< <<I, Num(1)>>, <<X, Num(2)>> >>))
JB == Json(Obj(<< <<X, Num(3)>>, <<I, Num(1)>> >>))
JD == Json(Obj(<< <<X, Obj(<< <<I, Num(1)>> >>)>> >>))

\* What a producer may have written: [key, value].
Messages ==
    { [key |-> Raw(1), value |-> JA],
      [key |-> Raw(1), value |-> JB],
      [key |-> None, value |-> JD],
      [key |-> Raw(1), value |-> None],
      [key |-> Raw(2), value |-> Raw(3)],
      [key |-> Raw(2), value |-> Undecodable(4)] }

A == <<"a">>
Z == <<"z">>

\* JSON values for --field i and --field i.a: under the key i a number, a
\* string, a boolean, null, an object in two key orders and with another
\* member, an array of one object in two key orders; no key i; not an object.
FieldValues ==
    { JA,
      Json(Obj(<< <<I, Str(1)>> >>)),
      Json(Obj(<< <<I, Bool(1)>> >>)),
      Json(Obj(<< <<I, NullNode>> >>)),
      Json(Obj(<< <<I, Obj(<< <<A, Num(1)>>, <<X, Num(2)>> >>)>>, <<X, Num(9)>> >>)),
      Json(Obj(<< <<Z, Num(3)>>, <<I, Obj(<< <<X, Num(2)>>, <<A, Num(1)>> >>)>> >>)),
      Json(Obj(<< <<I, Obj(<< <<A, Num(1)>>, <<X, Num(3)>> >>)>> >>)),
      Json(Obj(<< <<I, Arr(<< Obj(<< <<X, Num(1)>>, <<A, Num(2)>> >>) >>)>> >>)),
      Json(Obj(<< <<I, Arr(<< Obj(<< <<A, Num(2)>>, <<X, Num(1)>> >>) >>)>> >>)),
      Json(Obj(<< <<X, Num(1)>> >>)),
      Json(Num(7)) }

\* The topics that hold up to maxlen of the given messages.
TopicsOf(given, maxlen) ==
    UNION { { [n \in 1..len |-> [key |-> f[n].key, value |-> f[n].value, offset |-> n]] :
                f \in [1..len -> given] } : len \in 0..maxlen }

\* The topics of the scans by a JSON field.
FieldTopics ==
    TopicsOf({ [key |-> None, value |-> v] : v \in FieldValues }, MaxFieldRecords)

\* parse_args(): the defaults of the options.
Defaults ==
    [ overview |-> FALSE, list_topics |-> FALSE, check_lag |-> FALSE,
      search |-> FALSE, peek |-> 0, topic |-> TRUE,
      dedup_by |-> "value", field |-> <<>>, max_messages |-> MaxBudget,
      sqlite |-> FALSE, output |-> <<>>, silent |-> FALSE ]

\* The command lines of the model: one operation flag at a time with or
\* without --topic, and the deduplication scan under every combination of
\* its options, with the smallest budget and the largest of the model.
Modes ==
    { [dedup_by |-> "value", field |-> <<>>],
      [dedup_by |-> "key", field |-> <<>>],
      [dedup_by |-> "value", field |-> <<"i">>],
      [dedup_by |-> "value", field |-> <<"x", ".", "i">>] }
Outputs == { <<>>, <<"out">>, <<"out", ":", "jsonl">>, <<"out", ":", "csv">> }

ArgSets ==
    { [Defaults EXCEPT !.topic = t] : t \in BOOLEAN }
    \cup { [Defaults EXCEPT !.overview = TRUE, !.topic = t] : t \in BOOLEAN }
    \cup { [Defaults EXCEPT !.list_topics = TRUE, !.topic = t] : t \in BOOLEAN }
    \cup { [Defaults EXCEPT !.check_lag = TRUE, !.topic = t] : t \in BOOLEAN }
    \cup { [Defaults EXCEPT !.search = TRUE, !.topic = t] : t \in BOOLEAN }
    \cup { [Defaults EXCEPT !.peek = n, !.topic = t] : n \in {-1, 1}, t \in BOOLEAN }
    \cup { [Defaults EXCEPT !.dedup_by = m.dedup_by, !.field = m.field,
                            !.max_messages = b, !.sqlite = q, !.output = o,
                            !.silent = s] :
             m \in Modes, b \in {1, MaxBudget}, q \in BOOLEAN, o \in Outputs,
             s \in BOOLEAN }

VARIABLES
    args,            \* the parsed command line
    pc,              \* where main() is
    inv,             \* the number of this invocation of the program
    topic,           \* the records of the topic, in offset order
    pos,             \* how many records this invocation has polled
    consumer,        \* "none", "open" or "closed"
    closes,          \* calls of consumer.close() in this invocation
    seen,            \* the in-memory set of hashes
    db,              \* the sqlite connection: "none", "open" or "closed"
    dbDisk,          \* the committed rows of table seen in the sqlite file
    dbPending,       \* rows inserted in the open transaction
    output_file,     \* "none", "open" or "closed"
    output_format,   \* the format the rows are written in
    file,            \* the rows of the output file
    count,           \* main's count
    duplicates,      \* main's duplicates
    msg,             \* the record of this iteration
    h,               \* its hash
    is_duplicate,    \* its classification
    exit,            \* why the loop was left: "" while it runs
    printed,         \* [Duplicate] blocks printed on the console
    summaries,       \* "Scanned .. found .." lines printed
    firsts,          \* history: hashes classified as new in a finished iteration
    inserted,        \* history: hashes whose INSERT this invocation committed
    insertedEarlier, \* history: hashes whose INSERT an earlier invocation committed
    firstsEarlier,   \* history: firsts of the earlier invocations
    finished,        \* history: records whose iteration this invocation finished
    finishedEarlier, \* history: the most an earlier invocation finished
    outcomeEarlier,  \* history: how the run with the other --silent ended
    scanned_count,   \* search_messages' scanned_count
    found_count,     \* search_messages' found_count
    messages,        \* peek_messages' messages
    displayed        \* the records peek_messages has printed

vars == << args, pc, inv, topic, pos, consumer, closes, seen, db, dbDisk,
           dbPending, output_file, output_format, file, count, duplicates,
           msg, h, is_duplicate, exit, printed, summaries, firsts, inserted,
           insertedEarlier, firstsEarlier, finished, finishedEarlier,
           outcomeEarlier, scanned_count, found_count, messages, displayed >>

\* What the deduplication scan of one command line leaves alone.
otherVars == << outcomeEarlier, scanned_count, found_count, messages, displayed >>

NoMsg == [key |-> None, value |-> None, offset |-> 0]
NoHash == hash_payload(None)

\* The variables of one invocation, as the interpreter starts it.
Fresh ==
    /\ pc = "main"
    /\ pos = 0
    /\ consumer = "none"
    /\ closes = 0
    /\ seen = {}
    /\ db = "none"
    /\ dbPending = {}
    /\ output_file = "none"
    /\ output_format = <<"text">>
    /\ count = 0
    /\ duplicates = 0
    /\ msg = NoMsg
    /\ h = NoHash
    /\ is_duplicate = FALSE
    /\ exit = ""
    /\ printed = 0
    /\ summaries = <<>>
    /\ firsts = {}
    /\ inserted = {}
    /\ finished = 0

\* No run has ended yet.
NoOutcome ==
    [pc |-> "", exit |-> "", count |-> 0, duplicates |-> 0, store |-> {},
     file |-> <<>>]

\* Nothing is on disk and nothing has run.
Blank ==
    /\ inv = 1
    /\ dbDisk = {}
    /\ file = <<>>
    /\ insertedEarlier = {}
    /\ firstsEarlier = {}
    /\ finishedEarlier = 0
    /\ outcomeEarlier = NoOutcome
    /\ scanned_count = 0
    /\ found_count = 0
    /\ messages = <<>>
    /\ displayed = <<>>
    /\ Fresh

Init ==
    /\ args \in ArgSets
    /\ topic = <<>>
    /\ Blank

\* The command lines of the runs that are repeated on one sqlite file.
RerunArgSets ==
    { a \in ArgSets :
        /\ a.sqlite
        /\ a.output \in { <<>>, <<"out", ":", "jsonl">> } }

InitRerun ==
    /\ Init
    /\ args \in RerunArgSets

\* The command lines of the runs that show what either store keeps.
StoreArgSets ==
    { a \in ArgSets : a.topic /\ a.peek = 0 /\ ~a.search /\ ~a.overview
                      /\ ~a.list_topics /\ ~a.check_lag /\ ~a.silent
                      /\ a.output \in { <<>>, <<"out", ":", "jsonl">> } }

InitStores ==
    /\ Init
    /\ args \in StoreArgSets

\* The command lines of the scans that are run once without --silent and
\* once with it, on a topic that holds its records from the start.
SilentArgSets ==
    { a \in ArgSets : a.topic /\ a.peek = 0 /\ ~a.search /\ ~a.overview
                      /\ ~a.list_topics /\ ~a.check_lag /\ ~a.silent }

InitSilent ==
    /\ args \in SilentArgSets
    /\ topic \in TopicsOf(Messages, MaxSilentRecords)
    /\ Blank

\* The values of --output: no format, an empty one, text, one that is not
\* known, and csv and jsonl in either case.
SinkOutputs ==
    { <<"out">>, <<"out", ":">>, <<"out", ":", "text">>, <<"out", ":", "xml">>,
      <<"out", ":", "CSV">>, <<"out", ":", "csv">>, <<"out", ":", "jsonl">>,
      <<"out", ":", "JSONL">> }

\* The command lines of the scans by value that write an output file.
SinkArgSets ==
    { [Defaults EXCEPT !.output = o, !.max_messages = b] :
        o \in SinkOutputs, b \in {1, MaxBudget} }

InitSink ==
    /\ args \in SinkArgSets
    /\ topic \in TopicsOf(Messages, MaxSinkRecords)
    /\ Blank

\* The command lines of --search and of --peek, on a topic that holds its
\* records from the start.
InspectArgSets ==
    { [Defaults EXCEPT !.search = TRUE, !.max_messages = b] : b \in {1, MaxBudget} }
    \cup { [Defaults EXCEPT !.peek = n] : n \in (-MaxPeek..MaxPeek) \ {0} }

InitInspect ==
    /\ args \in InspectArgSets
    /\ topic \in TopicsOf(Messages, MaxInspectRecords)
    /\ Blank

\* The command lines of the scans of a source that never goes idle: every
\* mode and budget, the in-memory store, no output file, no console echo.
EndlessArgSets ==
    { a \in ArgSets : a.topic /\ a.peek = 0 /\ ~a.search /\ ~a.overview
                      /\ ~a.list_topics /\ ~a.check_lag /\ a.silent
                      /\ ~a.sqlite /\ a.output = <<>> }

InitEndless ==
    /\ Init
    /\ args \in EndlessArgSets

\* The command lines of the scans that are run once with the in-memory
\* store and once with --sqlite, on a topic that holds its records from the
\* start.
BackendArgSets ==
    { a \in ArgSets : a.topic /\ a.peek = 0 /\ ~a.search /\ ~a.overview
                      /\ ~a.list_topics /\ ~a.check_lag /\ ~a.sqlite }

InitBackends ==
    /\ args \in BackendArgSets
    /\ topic \in TopicsOf(Messages, MaxBackendRecords)
    /\ Blank

\* The command lines of the scans by a JSON field, on a topic that holds
\* its records from the start.
FieldArgSets ==
    { [Defaults EXCEPT !.field = f, !.max_messages = b] :
        f \in { <<"i">>, <<"i", ".", "a">> }, b \in {1, MaxBudget} }

InitField ==
    /\ args \in FieldArgSets
    /\ topic \in FieldTopics
    /\ Blank

-----------------------------------------------------------------------------
\* The output file

NoText == [kind |-> "absent", id |-> 0, doc |-> NullNode]
EmptyText == [kind |-> "empty", id |-> 0, doc |-> NullNode]
NullText == [kind |-> "null", id |-> 0, doc |-> NullNode]

\* bytes.decode(errors='ignore'): the text of the bytes; bytes that are not
\* UTF-8 are dropped, so all undecodable byte strings decode alike.
Decode(b) ==
    IF b.kind = "undecodable" THEN [kind |-> "str", id |-> 0, doc |-> b.doc]
    ELSE [b EXCEPT !.kind = "str"]

\* bool(x) of a bytes object or None; no byte string of the model is empty.
Truthy(b) == b.kind # "none"

\* msg.timestamp()[1], msg.partition()
Timestamp(m) == 1660000000
Partition(m) == 0

Columns == <<"timestamp", "partition", "offset", "key", "value">>

\* csv_writer.writerow(['timestamp', 'partition', 'offset', 'key', 'value'])
HeaderRow ==
    [ fmt |-> "csv", cols |-> Columns, header |-> TRUE, ts |-> 0,
      partition |-> 0, offset |-> 0, key |-> NoText, value |-> NoText ]

\* str.lower() on the format names of the model
Lower(w) == [n \in 1..Len(w) |-> IF w[n] = "CSV" THEN "csv"
                                 ELSE IF w[n] = "JSONL" THEN "jsonl"
                                 ELSE IF w[n] = "TEXT" THEN "text" ELSE w[n]]

\* (variant: without a format the file is written as jsonl)
OutputFormat_DefaultJsonl(output) ==
    LET parts == Split(output, ":")
    IN  IF Len(parts) > 1 THEN Lower(parts[2]) ELSE <<"jsonl">>
\* Lines 319-325: the format named after the ':' of --output, 'text' without.
OutputFormat(output) ==
    LET parts == Split(output, ":")
    IN  IF Len(parts) > 1 THEN Lower(parts[2]) ELSE <<"text">>

\* Lines 382-389: the JSON line of a duplicate.
JsonlRow(m) ==
    [ fmt |-> "jsonl", cols |-> Columns, header |-> FALSE,
      ts |-> Timestamp(m), partition |-> Partition(m), offset |-> m.offset,
      key |-> IF Truthy(m.key) THEN Decode(m.key) ELSE NullText,
      value |-> Decode(m.value) ]

\* Lines 391-397: the csv row of a duplicate.
CsvRow(m) ==
    [ fmt |-> "csv", cols |-> Columns, header |-> FALSE,
      ts |-> Timestamp(m), partition |-> Partition(m), offset |-> m.offset,
      key |-> IF Truthy(m.key) THEN Decode(m.key) ELSE EmptyText,
      value |-> Decode(m.value) ]

\* Lines 399-402: the text block of a duplicate; it has no key.
TextRow(m) ==
    [ fmt |-> "text", cols |-> <<"timestamp", "partition", "offset", "value">>,
      header |-> FALSE,
      ts |-> Timestamp(m), partition |-> Partition(m), offset |-> m.offset,
      key |-> NoText, value |-> Decode(m.value) ]

\* (variant: the csv branch writes nothing)
DuplicateRows_NoCsv(format, m) ==
    IF format = <<"jsonl">> THEN <<JsonlRow(m)>>
    ELSE IF format = <<"csv">> THEN <<>>
    ELSE <<TextRow(m)>>

\* Lines 381-402: what one duplicate adds to the output file, by format.
DuplicateRows(format, m) ==
    IF format = <<"jsonl">> THEN <<JsonlRow(m)>>
    ELSE IF format = <<"csv">> THEN <<CsvRow(m)>>
    ELSE <<TextRow(m)>>

-----------------------------------------------------------------------------
\* main()

Terminal == {"returned", "exit1", "done", "raised", "crashed"}

\* Why the try block of lines 337-404 is left, and why the setup before it is.
LoopExits == {"exhausted", "budget", "KafkaException", "TypeError",
              "UnicodeDecodeError", "sqlite3.Error", "AttributeError",
              "OSError", "KeyboardInterrupt"}
SetupExits == {"setup sqlite3.Error", "setup OSError"}
InLoop == {"loop", "extract", "classify", "commit", "emit"}

\* Lines 270-306: where main() goes from its command line.
DispatchTarget(a) ==
    IF a.overview THEN "returned"
    ELSE IF a.list_topics THEN "returned"
    ELSE IF a.check_lag THEN (IF ~a.topic THEN "exit1" ELSE "returned")
    ELSE IF a.search THEN (IF ~a.topic THEN "exit1" ELSE "search")
    ELSE IF a.peek # 0 THEN (IF ~a.topic THEN "exit1" ELSE "peek")
    ELSE IF ~a.topic THEN "exit1" ELSE "setup"

\* Line 277 runs on every path but --overview, before any check of --topic.
ConsumerAfterDispatch(a) == IF a.overview THEN "none" ELSE "open"

\* Lines 266-306: the Consumer is created, then the operation is chosen;
\* overview, list-topics and check-lag run to their end here.
Dispatch ==
    /\ pc = "main"
    /\ consumer' = ConsumerAfterDispatch(args)
    /\ pc' = DispatchTarget(args)
    /\ UNCHANGED << args, inv, topic, pos, closes, seen, db, dbDisk, dbPending,
                    output_file, output_format, file, count, duplicates, msg, h,
                    is_duplicate, exit, printed, summaries, firsts, inserted,
                    insertedEarlier, firstsEarlier, finished,
                    finishedEarlier >>
    /\ UNCHANGED otherVars

\* (variant: no header is written)
OpenedFile_NoHeader(format) == <<>>
\* Lines 327-331: open(path, 'w') empties the file; csv writes its header.
OpenedFile(format) == IF format = <<"csv">> THEN <<HeaderRow>> ELSE <<>>

\* (variant: the table is created anew at every start)
DbOpen_Recreate(disk) == {}
\* Lines 314-316: sqlite3.connect and CREATE TABLE IF NOT EXISTS keep the
\* rows the file has.
DbOpen(disk) == disk

\* Lines 308-335, every statement succeeding.
SetupDone ==
    /\ pc = "setup"
    /\ seen' = {}
    /\ db' = IF args.sqlite THEN "open" ELSE "none"
    /\ dbDisk' = IF args.sqlite THEN DbOpen(dbDisk) ELSE dbDisk
    /\ IF args.output # <<>>
       THEN /\ output_format' = OutputFormat(args.output)
            /\ output_file' = "open"
            /\ file' = OpenedFile(OutputFormat(args.output))
       ELSE UNCHANGED << output_format, output_file, file >>
    /\ count' = 0
    /\ duplicates' = 0
    /\ pc' = "loop"
    /\ UNCHANGED << args, inv, topic, pos, consumer, closes, dbPending,
                    msg, h, is_duplicate, exit, printed, summaries, firsts,
                    inserted, insertedEarlier, firstsEarlier, finished,
                    finishedEarlier >>
    /\ UNCHANGED otherVars

\* Line 314 or 316 raises: nothing after it runs and nothing is closed.
SetupStoreError ==
    /\ pc = "setup"
    /\ args.sqlite
    /\ \E connected \in BOOLEAN : db' = IF connected THEN "open" ELSE "none"
    /\ exit' = "setup sqlite3.Error"
    /\ pc' = "raised"
    /\ UNCHANGED << args, inv, topic, pos, consumer, closes, seen, dbDisk,
                    dbPending, output_file, output_format, file, count,
                    duplicates, msg, h, is_duplicate, printed, summaries,
                    firsts, inserted, insertedEarlier, firstsEarlier, finished,
                    finishedEarlier >>
    /\ UNCHANGED otherVars

\* Line 327 raises: the store is open by then, and nothing is closed.
SetupSinkError ==
    /\ pc = "setup"
    /\ args.output # <<>>
    /\ db' = IF args.sqlite THEN "open" ELSE "none"
    /\ output_format' = OutputFormat(args.output)
    /\ exit' = "setup OSError"
    /\ pc' = "raised"
    /\ UNCHANGED << args, inv, topic, pos, consumer, closes, seen, dbDisk,
                    dbPending, output_file, file, count, duplicates, msg, h,
                    is_duplicate, printed, summaries, firsts, inserted,
                    insertedEarlier, firstsEarlier, finished,
                    finishedEarlier >>
    /\ UNCHANGED otherVars

\* (variant: the loop runs while count <= max_messages)
BudgetLeft_Inclusive(n, max_messages) == n <= max_messages
\* Line 338: the loop condition.
BudgetLeft(n, max_messages) == n < max_messages

\* Line 338, condition false: the loop ends.
LoopBudget ==
    /\ pc = "loop"
    /\ ~BudgetLeft(count, args.max_messages)
    /\ exit' = "budget"
    /\ pc' = "finally"
    /\ UNCHANGED << args, inv, topic, pos, consumer, closes, seen, db, dbDisk,
                    dbPending, output_file, output_format, file, count,
                    duplicates, msg, h, is_duplicate, printed, summaries,
                    firsts, inserted, insertedEarlier, firstsEarlier, finished,
                    finishedEarlier >>
    /\ UNCHANGED otherVars

\* Lines 339-341: poll returns None, which the source does when it has
\* nothing more to deliver.
PollNone ==
    /\ pc = "loop"
    /\ BudgetLeft(count, args.max_messages)
    /\ pos = Len(topic)
    /\ exit' = "exhausted"
    /\ pc' = "finally"
    /\ UNCHANGED << args, inv, topic, pos, consumer, closes, seen, db, dbDisk,
                    dbPending, output_file, output_format, file, count,
                    duplicates, msg, h, is_duplicate, printed, summaries,
                    firsts, inserted, insertedEarlier, firstsEarlier, finished,
                    finishedEarlier >>
    /\ UNCHANGED otherVars

\* Lines 339-342: poll returns an error event and main raises KafkaException.
PollError ==
    /\ pc = "loop"
    /\ BudgetLeft(count, args.max_messages)
    /\ exit' = "KafkaException"
    /\ pc' = "finally"
    /\ UNCHANGED << args, inv, topic, pos, consumer, closes, seen, db, dbDisk,
                    dbPending, output_file, output_format, file, count,
                    duplicates, msg, h, is_duplicate, printed, summaries,
                    firsts, inserted, insertedEarlier, firstsEarlier, finished,
                    finishedEarlier >>
    /\ UNCHANGED otherVars

\* Lines 339-342: poll returns the next record of the topic; past the records
\* an earlier poll has shown, the topic holds any message, up to maxlen records.
PollRecord(maxlen) ==
    /\ pc = "loop"
    /\ BudgetLeft(count, args.max_messages)
    /\ \/ pos < Len(topic) /\ UNCHANGED topic
       \/ /\ pos = Len(topic)
          /\ Len(topic) < maxlen
          /\ \E m \in Messages :
                topic' = Append(topic, [key |-> m.key, value |-> m.value,
                                        offset |-> Len(topic) + 1])
    /\ pos' = pos + 1
    /\ msg' = topic'[pos + 1]
    /\ pc' = "extract"
    /\ UNCHANGED << args, inv, consumer, closes, seen, db, dbDisk, dbPending,
                    output_file, output_format, file, count, duplicates, h,
                    is_duplicate, exit, printed, summaries, firsts, inserted,
                    insertedEarlier, firstsEarlier, finished,
                    finishedEarlier >>
    /\ UNCHANGED otherVars

\* Lines 344-350: the dedup payload of a record, [exc, ret].
ExtractPayload(a, m) ==
    IF a.field # <<>> THEN get_field_from_json(m.value, a.field)
    ELSE IF a.dedup_by = "value" THEN [exc |-> "", ret |-> m.value]
    ELSE [exc |-> "", ret |-> m.key]

\* Lines 344-355: extraction; an exception leaves the loop, an absent payload
\* goes back to the loop condition by `continue`, a payload is hashed.
Extract ==
    /\ pc = "extract"
    /\ LET got == ExtractPayload(args, msg)
       IN  IF got.exc # ""
           THEN exit' = got.exc /\ pc' = "finally" /\ UNCHANGED << h, finished >>
           ELSE IF got.ret = None
           THEN pc' = "loop" /\ finished' = pos /\ UNCHANGED << exit, h >>
           ELSE /\ h' = hash_payload(got.ret)
                /\ pc' = "classify"
                /\ UNCHANGED << exit, finished >>
    /\ UNCHANGED << args, inv, topic, pos, consumer, closes, seen, db, dbDisk,
                    dbPending, output_file, output_format, file, count,
                    duplicates, msg, is_duplicate, printed, summaries, firsts,
                    inserted, insertedEarlier, firstsEarlier, finishedEarlier >>
    /\ UNCHANGED otherVars

\* (variant: the lookup never finds a hash)
SeenLookup_Never(set, hash) == FALSE
\* Lines 366-369: the in-memory store.
SeenLookup(set, hash) == hash \in set
\* (variant: the set forgets what is added)
SeenAdd_Forget(set, hash) == set
\* (variant: the set holds the last hash only)
SeenAdd_Replace(set, hash) == {hash}
SeenAdd(set, hash) == set \cup {hash}

ClassifyMemory ==
    /\ pc = "classify"
    /\ ~args.sqlite
    /\ is_duplicate' = SeenLookup(seen, h)
    /\ seen' = IF SeenLookup(seen, h) THEN seen ELSE SeenAdd(seen, h)
    /\ pc' = "emit"
    /\ UNCHANGED << args, inv, topic, pos, consumer, closes, db, dbDisk,
                    dbPending, output_file, output_format, file, count,
                    duplicates, msg, h, exit, printed, summaries, firsts,
                    inserted, insertedEarlier, firstsEarlier, finished,
                    finishedEarlier >>
    /\ UNCHANGED otherVars

\* (variant: the SELECT never finds a row)
DbSelect_Miss(disk, pending, hash) == FALSE
\* Lines 359-360: SELECT 1 FROM seen WHERE hash = ? on this connection.
DbSelect(disk, pending, hash) == hash \in disk \cup pending

\* Lines 359-363: the row is there, or it is inserted in the transaction.
ClassifySqlite ==
    /\ pc = "classify"
    /\ args.sqlite
    /\ IF DbSelect(dbDisk, dbPending, h)
       THEN is_duplicate' = TRUE /\ pc' = "emit" /\ UNCHANGED dbPending
       ELSE is_duplicate' = FALSE /\ dbPending' = dbPending \cup {h} /\ pc' = "commit"
    /\ UNCHANGED << args, inv, topic, pos, consumer, closes, seen, db, dbDisk,
                    output_file, output_format, file, count, duplicates, msg,
                    h, exit, printed, summaries, firsts, inserted,
                    insertedEarlier, firstsEarlier, finished,
                    finishedEarlier >>
    /\ UNCHANGED otherVars

\* (variant: the commit is left to a later batch)
DbCommit_Batched(disk, pending) == disk
\* Line 364: db.commit() makes the rows of the transaction durable.
DbCommit(disk, pending) == disk \cup pending

Commit ==
    /\ pc = "commit"
    /\ dbDisk' = DbCommit(dbDisk, dbPending)
    /\ dbPending' = {}
    /\ inserted' = inserted \cup {h}
    /\ pc' = "emit"
    /\ UNCHANGED << args, inv, topic, pos, consumer, closes, seen, db,
                    output_file, output_format, file, count, duplicates, msg,
                    h, is_duplicate, exit, printed, summaries, firsts,
                    insertedEarlier, firstsEarlier, finished,
                    finishedEarlier >>
    /\ UNCHANGED otherVars

\* (variant: the error is caught and the record skipped)
StoreError_Skipped ==
    /\ pc \in {"classify", "commit"}
    /\ args.sqlite
    /\ exit' = "sqlite3.Error"
    /\ pc' = "loop"
    /\ UNCHANGED << args, inv, topic, pos, consumer, closes, seen, db, dbDisk,
                    dbPending, output_file, output_format, file, count,
                    duplicates, msg, h, is_duplicate, printed, summaries,
                    firsts, inserted, insertedEarlier, firstsEarlier, finished,
                    finishedEarlier, otherVars >>
\* Lines 359, 363, 364: a statement of the store raises; what the
\* transaction holds stays uncommitted.
StoreError ==
    /\ pc \in {"classify", "commit"}
    /\ args.sqlite
    /\ exit' = "sqlite3.Error"
    /\ pc' = "finally"
    /\ UNCHANGED << args, inv, topic, pos, consumer, closes, seen, db, dbDisk,
                    dbPending, output_file, output_format, file, count,
                    duplicates, msg, h, is_duplicate, printed, summaries,
                    firsts, inserted, insertedEarlier, firstsEarlier, finished,
                    finishedEarlier >>
    /\ UNCHANGED otherVars

\* Lines 376, 387, 396, 401: msg.value().decode of a record without value.
DecodeRaises(a, m, file_open) ==
    ~Truthy(m.value) /\ (~a.silent \/ file_open)

\* (variant: the rows are written at the start of the file)
Written_AtStart(rows, new) == new \o rows
\* Lines 389, 391, 399: write() and writerow() add at the end of the file.
Written(rows, new) == rows \o new

\* Lines 371-404: a duplicate is counted, echoed and written; every record
\* that gets here is counted.
Emit ==
    /\ pc = "emit"
    /\ IF is_duplicate
       THEN /\ ~DecodeRaises(args, msg, output_file = "open")
            /\ duplicates' = duplicates + 1
            /\ printed' = IF args.silent THEN printed ELSE printed + 1
            /\ file' = IF output_file = "open"
                       THEN Written(file, DuplicateRows(output_format, msg))
                       ELSE file
            /\ UNCHANGED firsts
       ELSE /\ firsts' = firsts \cup {h}
            /\ UNCHANGED << duplicates, printed, file >>
    /\ count' = count + 1
    /\ finished' = pos
    /\ pc' = "loop"
    /\ UNCHANGED << args, inv, topic, pos, consumer, closes, seen, db, dbDisk,
                    dbPending, output_file, output_format, msg, h, is_duplicate,
                    exit, summaries, inserted, insertedEarlier, firstsEarlier,
                    finishedEarlier >>
    /\ UNCHANGED otherVars

\* Lines 372-376: the duplicate is counted, then formatting it raises
\* AttributeError before anything is printed or written.
EmitDecodeError ==
    /\ pc = "emit"
    /\ is_duplicate
    /\ DecodeRaises(args, msg, output_file = "open")
    /\ duplicates' = duplicates + 1
    /\ exit' = "AttributeError"
    /\ pc' = "finally"
    /\ UNCHANGED << args, inv, topic, pos, consumer, closes, seen, db, dbDisk,
                    dbPending, output_file, output_format, file, count, msg, h,
                    is_duplicate, printed, summaries, firsts, inserted, insertedEarlier, firstsEarlier, finished,
                    finishedEarlier >>
    /\ UNCHANGED otherVars

\* Lines 389, 391, 399: the write to the output file raises.
EmitWriteError ==
    /\ pc = "emit"
    /\ is_duplicate
    /\ output_file = "open"
    /\ ~DecodeRaises(args, msg, TRUE)
    /\ duplicates' = duplicates + 1
    /\ printed' = IF args.silent THEN printed ELSE printed + 1
    /\ exit' = "OSError"
    /\ pc' = "finally"
    /\ UNCHANGED << args, inv, topic, pos, consumer, closes, seen, db, dbDisk,
                    dbPending, output_file, output_format, file, count, msg, h,
                    is_duplicate, summaries, firsts, inserted, insertedEarlier, firstsEarlier, finished,
                    finishedEarlier >>
    /\ UNCHANGED otherVars

\* Ctrl-C while the loop runs: KeyboardInterrupt is raised inside the try.
Interrupt ==
    /\ pc \in InLoop
    /\ exit' = "KeyboardInterrupt"
    /\ pc' = "finally"
    /\ UNCHANGED << args, inv, topic, pos, consumer, closes, seen, db, dbDisk,
                    dbPending, output_file, output_format, file, count,
                    duplicates, msg, h, is_duplicate, printed, summaries,
                    firsts, inserted, insertedEarlier, firstsEarlier, finished,
                    finishedEarlier >>
    /\ UNCHANGED otherVars

\* (variant: the handle is left as it is)
ClosedAfter_Leak(handle) == handle
\* Lines 406-408: what the finally block closes.
ClosedAfter(handle) == IF handle = "open" THEN "closed" ELSE handle

\* (variant: the summary is printed inside the finally block)
SummaryPrinted_Always(why) == TRUE
\* Line 410 follows the try statement: it runs when no exception left it.
SummaryPrinted(why) == why \in {"exhausted", "budget"}

\* Lines 405-410: the finally block, then the summary when the loop ended by
\* itself, the exception when it did not. Closing the connection drops the
\* uncommitted transaction.
Teardown ==
    /\ pc = "finally"
    /\ consumer' = "closed"
    /\ closes' = closes + 1
    /\ db' = ClosedAfter(db)
    /\ dbPending' = {}
    /\ output_file' = ClosedAfter(output_file)
    /\ summaries' = IF SummaryPrinted(exit)
                     THEN Append(summaries, [scanned |-> count, found |-> duplicates])
                     ELSE summaries
    /\ pc' = IF exit \in {"exhausted", "budget"} THEN "done" ELSE "raised"
    /\ UNCHANGED << args, inv, topic, pos, seen, dbDisk, output_format, file,
                    count, duplicates, msg, h, is_duplicate, exit, printed,
                    firsts, inserted, insertedEarlier, firstsEarlier, finished,
                    finishedEarlier >>
    /\ UNCHANGED otherVars

\* The process is killed: its memory is gone, nothing is closed, and the
\* sqlite file keeps the committed rows only.
Crash ==
    /\ pc \notin Terminal
    /\ pc \notin {"search", "peek"}
    /\ pc' = "crashed"
    /\ pos' = 0
    /\ consumer' = "none"
    /\ closes' = 0
    /\ seen' = {}
    /\ db' = "none"
    /\ dbPending' = {}
    /\ output_file' = "none"
    /\ output_format' = <<"text">>
    /\ count' = 0
    /\ duplicates' = 0
    /\ msg' = NoMsg
    /\ h' = NoHash
    /\ is_duplicate' = FALSE
    /\ exit' = "killed"
    /\ UNCHANGED << args, inv, topic, dbDisk, file, printed, summaries, firsts,
                    inserted, insertedEarlier, firstsEarlier, finished,
                    finishedEarlier >>
    /\ UNCHANGED otherVars

\* The operator runs the same command line again, on the same topic and
\* with the sqlite file the earlier run left (a run with the in-memory store
\* leaves nothing that a later run reads).
NewInvocation ==
    /\ pc \in Terminal
    /\ args.sqlite
    /\ inv < MaxInvocations
    /\ inv' = inv + 1
    /\ insertedEarlier' = insertedEarlier \cup inserted
    /\ firstsEarlier' = firstsEarlier \cup firsts
    /\ finishedEarlier' = IF finished > finishedEarlier THEN finished ELSE finishedEarlier
    /\ finished' = 0
    /\ pc' = "main"
    /\ pos' = 0
    /\ consumer' = "none"
    /\ closes' = 0
    /\ seen' = {}
    /\ db' = "none"
    /\ dbPending' = {}
    /\ output_file' = "none"
    /\ output_format' = <<"text">>
    /\ count' = 0
    /\ duplicates' = 0
    /\ msg' = NoMsg
    /\ h' = NoHash
    /\ is_duplicate' = FALSE
    /\ exit' = ""
    /\ printed' = 0
    /\ summaries' = <<>>
    /\ firsts' = {}
    /\ inserted' = {}
    /\ UNCHANGED << args, topic, dbDisk, file >>
    /\ UNCHANGED otherVars

\* The steps of one run up to the store, and from the store on.
Scan(maxlen) ==
    \/ Dispatch
    \/ SetupDone
    \/ SetupStoreError
    \/ SetupSinkError
    \/ LoopBudget
    \/ PollNone
    \/ PollError
    \/ PollRecord(maxlen)
    \/ Extract
    \/ ClassifySqlite
    \/ Commit
    \/ StoreError
    \/ Emit
    \/ EmitDecodeError
    \/ EmitWriteError
    \/ Interrupt
    \/ Teardown
    \/ Crash

\* One run of the program, under every command line.
Next == Scan(MaxRecords) \/ ClassifyMemory

Spec == Init /\ [][Next]_vars

\* Runs of one command line with --sqlite, one after the other.
NextRerun == Scan(MaxRerunRecords) \/ NewInvocation

SpecRerun == InitRerun /\ [][NextRerun]_vars

-----------------------------------------------------------------------------
\* search_messages() and peek_messages()

\* What the two functions leave alone.
scanVars == << inv, seen, db, dbDisk, dbPending, output_file, output_format, file,
               count, duplicates, h, is_duplicate, printed, firsts, inserted,
               insertedEarlier, firstsEarlier, finished, finishedEarlier,
               outcomeEarlier >>

\* (variant: the loop runs while scanned_count <= max_messages)
SearchBudgetLeft_Inclusive(n, max_messages) == n <= max_messages
\* Line 237: the loop condition of search_messages.
SearchBudgetLeft(n, max_messages) == n < max_messages

\* Line 237, condition false.
SearchBudget ==
    /\ pc = "search"
    /\ ~SearchBudgetLeft(scanned_count, args.max_messages)
    /\ exit' = "budget"
    /\ pc' = "search finally"
    /\ UNCHANGED << args, topic, pos, consumer, closes, msg, summaries,
                    scanned_count, found_count, messages, displayed, scanVars >>

\* Lines 238-240: poll returns None at the end of the topic.
SearchPollNone ==
    /\ pc = "search"
    /\ SearchBudgetLeft(scanned_count, args.max_messages)
    /\ pos = Len(topic)
    /\ exit' = "exhausted"
    /\ pc' = "search finally"
    /\ UNCHANGED << args, topic, pos, consumer, closes, msg, summaries,
                    scanned_count, found_count, messages, displayed, scanVars >>

\* Lines 238-241: poll returns an error event.
SearchPollError ==
    /\ pc = "search"
    /\ SearchBudgetLeft(scanned_count, args.max_messages)
    /\ exit' = "KafkaException"
    /\ pc' = "search finally"
    /\ UNCHANGED << args, topic, pos, consumer, closes, msg, summaries,
                    scanned_count, found_count, messages, displayed, scanVars >>

\* Lines 246-252: `pattern in value_str`. The pattern of the model is "i"
\* with its quotes: it is in the text of a JSON value that has the key i at
\* any depth, and in no other text of the model.
RECURSIVE HasKey(_, _)
HasKey(node, key) ==
    \E n \in 1..Len(node.m) : node.m[n][1] = key \/ HasKey(node.m[n][2], key)

SearchMatch(value_str) == HasKey(value_str.doc, I)

\* Lines 238-258: poll returns a record; it is counted, then decoding a
\* record without value raises AttributeError, else a match is counted.
SearchRecord ==
    /\ pc = "search"
    /\ SearchBudgetLeft(scanned_count, args.max_messages)
    /\ pos < Len(topic)
    /\ pos' = pos + 1
    /\ msg' = topic[pos + 1]
    /\ scanned_count' = scanned_count + 1
    /\ IF ~Truthy(msg'.value)
       THEN /\ exit' = "AttributeError"
            /\ pc' = "search finally"
            /\ UNCHANGED found_count
       ELSE /\ found_count' = IF SearchMatch(Decode(msg'.value))
                              THEN found_count + 1 ELSE found_count
            /\ pc' = "search"
            /\ UNCHANGED exit
    /\ UNCHANGED << args, topic, consumer, closes, summaries, messages,
                    displayed, scanVars >>

\* Lines 260-262: the finally block closes the consumer and prints the
\* summary, on every way out of the try block.
SearchFinally ==
    /\ pc = "search finally"
    /\ consumer' = "closed"
    /\ closes' = closes + 1
    /\ summaries' = Append(summaries, [scanned |-> scanned_count, found |-> found_count])
    /\ pc' = IF exit \in {"exhausted", "budget"} THEN "returned" ELSE "raised"
    /\ UNCHANGED << args, topic, pos, msg, exit, scanned_count, found_count,
                    messages, displayed, scanVars >>

\* Lines 205-206: poll returns None when the source is idle.
PeekPollNone ==
    /\ pc = "peek"
    /\ pos = Len(topic)
    /\ exit' = "exhausted"
    /\ pc' = "peek finally"
    /\ UNCHANGED << args, topic, pos, consumer, closes, msg, summaries,
                    scanned_count, found_count, messages, displayed, scanVars >>

\* Lines 205-207: poll returns an error event.
PeekPollError ==
    /\ pc = "peek"
    /\ exit' = "KafkaException"
    /\ pc' = "peek finally"
    /\ UNCHANGED << args, topic, pos, consumer, closes, msg, summaries,
                    scanned_count, found_count, messages, displayed, scanVars >>

Abs(n) == IF n < 0 THEN -n ELSE n

\* Line 209: the loop stops after |N| records when N is negative.
PeekEnough(collected, num_messages) ==
    Len(collected) >= Abs(num_messages) /\ num_messages < 0

\* Lines 205-210: poll returns a record; it is kept.
PeekRecord ==
    /\ pc = "peek"
    /\ pos < Len(topic)
    /\ pos' = pos + 1
    /\ msg' = topic[pos + 1]
    /\ messages' = Append(messages, msg')
    /\ IF PeekEnough(messages', args.peek)
       THEN exit' = "count" /\ pc' = "peek finally"
       ELSE UNCHANGED << exit, pc >>
    /\ UNCHANGED << args, topic, consumer, closes, summaries, scanned_count,
                    found_count, displayed, scanVars >>

\* Lines 211-212: the finally block closes the consumer.
PeekFinally ==
    /\ pc = "peek finally"
    /\ consumer' = "closed"
    /\ closes' = closes + 1
    /\ pc' = IF exit \in {"exhausted", "count"} THEN "peek show" ELSE "raised"
    /\ UNCHANGED << args, topic, pos, msg, exit, summaries, scanned_count,
                    found_count, messages, displayed, scanVars >>

\* (variant: the first N are shown for a positive N too)
MessagesToShow_First(collected, num_messages) ==
    SubSeq(collected, 1, IF Abs(num_messages) < Len(collected)
                         THEN Abs(num_messages) ELSE Len(collected))
\* Lines 214-217: messages[-num_messages:] for a positive N, else all.
MessagesToShow(collected, num_messages) ==
    IF num_messages > 0
    THEN SubSeq(collected,
                IF Len(collected) > num_messages
                THEN Len(collected) - num_messages + 1 ELSE 1,
                Len(collected))
    ELSE collected

\* Lines 219-223: the records printed in full: all of them, or those before
\* the first record without value, whose decode raises AttributeError.
RECURSIVE Printable(_)
Printable(to_show) ==
    IF to_show = <<>> \/ ~Truthy(Head(to_show).value) THEN <<>>
    ELSE <<Head(to_show)>> \o Printable(Tail(to_show))

\* Lines 214-225: the display after the consumer is closed; exit keeps why
\* the poll loop was left.
PeekShow ==
    /\ pc = "peek show"
    /\ LET messages_to_show == MessagesToShow(messages, args.peek)
       IN  /\ displayed' = Printable(messages_to_show)
           /\ pc' = IF displayed' = messages_to_show THEN "returned" ELSE "raised"
    /\ UNCHANGED << args, topic, pos, consumer, closes, msg, exit, summaries,
                    scanned_count, found_count, messages, scanVars >>

\* Ctrl-C while either loop polls.
InspectInterrupt ==
    /\ pc \in {"search", "peek"}
    /\ exit' = "KeyboardInterrupt"
    /\ pc' = pc \o " finally"
    /\ UNCHANGED << args, topic, pos, consumer, closes, msg, summaries,
                    scanned_count, found_count, messages, displayed, scanVars >>

\* One run of --search or of --peek.
NextInspect ==
    \/ Dispatch
    \/ SearchBudget
    \/ SearchPollNone
    \/ SearchPollError
    \/ SearchRecord
    \/ SearchFinally
    \/ PeekPollNone
    \/ PeekPollError
    \/ PeekRecord
    \/ PeekFinally
    \/ PeekShow
    \/ InspectInterrupt

SpecInspect == InitInspect /\ [][NextInspect]_vars

-----------------------------------------------------------------------------
\* Runs with either store: one with the in-memory set, one after the other
\* with --sqlite.
NextStores == Scan(MaxRerunRecords) \/ ClassifyMemory \/ NewInvocation

SpecStores == InitStores /\ [][NextStores]_vars

\* Lines 339-342 with a source that never goes idle and never fails: every
\* poll returns a record, any message; the records are not kept and pos
\* counts the polls up to MaxPolls, where it stays ("MaxPolls or more").
PollEndless ==
    /\ pc = "loop"
    /\ BudgetLeft(count, args.max_messages)
    /\ pos' = IF pos < MaxPolls THEN pos + 1 ELSE pos
    /\ \E m \in Messages :
          msg' = [key |-> m.key, value |-> m.value, offset |-> pos']
    /\ pc' = "extract"
    /\ UNCHANGED << args, inv, topic, consumer, closes, seen, db, dbDisk,
                    dbPending, output_file, output_format, file, count,
                    duplicates, h, is_duplicate, exit, printed, summaries,
                    firsts, inserted, insertedEarlier, firstsEarlier, finished,
                    finishedEarlier >>
    /\ UNCHANGED otherVars

\* One run on that source; the program takes its next step whenever it has
\* one.
NextEndless ==
    \/ Dispatch
    \/ SetupDone
    \/ LoopBudget
    \/ PollEndless
    \/ Extract
    \/ ClassifyMemory
    \/ Emit
    \/ Teardown

SpecEndless == InitEndless /\ [][NextEndless]_vars /\ WF_vars(NextEndless)

\* What a run has come to: where it ended, its counters, the tokens of its
\* store and the rows of its output file.
Outcome ==
    [pc |-> pc, exit |-> exit, count |-> count, duplicates |-> duplicates,
     store |-> IF args.sqlite THEN dbDisk ELSE seen, file |-> file]

\* The operator runs the command line again with --silent added, on the same
\* topic and from the same empty store.
SilentRerun ==
    /\ pc \in Terminal
    /\ inv = 1
    /\ inv' = 2
    /\ args' = [args EXCEPT !.silent = TRUE]
    /\ outcomeEarlier' = Outcome
    /\ dbDisk' = {}
    /\ finished' = 0
    /\ pc' = "main"
    /\ pos' = 0
    /\ consumer' = "none"
    /\ closes' = 0
    /\ seen' = {}
    /\ db' = "none"
    /\ dbPending' = {}
    /\ output_file' = "none"
    /\ output_format' = <<"text">>
    /\ count' = 0
    /\ duplicates' = 0
    /\ msg' = NoMsg
    /\ h' = NoHash
    /\ is_duplicate' = FALSE
    /\ exit' = ""
    /\ printed' = 0
    /\ summaries' = <<>>
    /\ firsts' = {}
    /\ inserted' = {}
    /\ UNCHANGED << topic, file, insertedEarlier, firstsEarlier, finishedEarlier,
                    scanned_count, found_count, messages, displayed >>

\* The operator runs the command line again with --sqlite added and a new
\* sqlite file, on the same topic.
BackendRerun ==
    /\ pc \in Terminal
    /\ inv = 1
    /\ inv' = 2
    /\ args' = [args EXCEPT !.sqlite = TRUE]
    /\ outcomeEarlier' = Outcome
    /\ firstsEarlier' = firsts
    /\ dbDisk' = {}
    /\ finished' = 0
    /\ pc' = "main"
    /\ pos' = 0
    /\ consumer' = "none"
    /\ closes' = 0
    /\ seen' = {}
    /\ db' = "none"
    /\ dbPending' = {}
    /\ output_file' = "none"
    /\ output_format' = <<"text">>
    /\ count' = 0
    /\ duplicates' = 0
    /\ msg' = NoMsg
    /\ h' = NoHash
    /\ is_duplicate' = FALSE
    /\ exit' = ""
    /\ printed' = 0
    /\ summaries' = <<>>
    /\ firsts' = {}
    /\ inserted' = {}
    /\ UNCHANGED << topic, file, insertedEarlier, finishedEarlier,
                    scanned_count, found_count, messages, displayed >>

\* The steps of a run in which the source, the store and the output file
\* work and nobody interrupts.
Quiet(maxlen) ==
    \/ Dispatch
    \/ SetupDone
    \/ LoopBudget
    \/ PollNone
    \/ PollRecord(maxlen)
    \/ Extract
    \/ ClassifyMemory
    \/ ClassifySqlite
    \/ Commit
    \/ Emit
    \/ EmitDecodeError
    \/ Teardown

\* A run without --silent, then the run with it on the records the first
\* run was given.
NextSilent == Quiet(0) \/ SilentRerun

SpecSilent == InitSilent /\ [][NextSilent]_vars

\* A run with the in-memory store, then the run with --sqlite on the same
\* records.
NextBackends == Quiet(0) \/ BackendRerun

SpecBackends == InitBackends /\ [][NextBackends]_vars

\* One run that nothing disturbs, on the records the topic holds.
Undisturbed ==
    \/ Dispatch
    \/ SetupDone
    \/ LoopBudget
    \/ PollNone
    \/ PollRecord(0)
    \/ Extract
    \/ ClassifyMemory
    \/ Emit
    \/ Teardown

\* The output file under every value of --output.
NextSink == Undisturbed

SpecSink == InitSink /\ [][NextSink]_vars

\* get_field_from_json on every record of a topic of JSON values.
NextField == Undisturbed

SpecField == InitField /\ [][NextField]_vars

-----------------------------------------------------------------------------
\* What a scan should find, from the records alone

\* The record at offset n has a dedup payload under the mode of args.
Present(n) ==
    LET got == ExtractPayload(args, topic[n])
    IN  got.exc = "" /\ got.ret # None

TokenOf(n) == hash_payload(ExtractPayload(args, topic[n]).ret)

\* The records among the first n whose token an earlier record carries.
Repeats(n) ==
    { k \in 1..n : Present(k) /\ \E j \in 1..(k - 1) : Present(j) /\ TokenOf(j) = TokenOf(k) }

\* The data rows of the output file.
DataRows == { n \in 1..Len(file) : ~file[n].header }

\* A deduplication scan is what the command line asks for.
IsDedup == DispatchTarget(args) = "setup"

-----------------------------------------------------------------------------
\* C1: in a dedup scan with budget B the number of records pulled from the
\* source never exceeds B, and a scan that ends with B or more records pulled
\* has pulled exactly B, whatever records are delivered, records without a
\* dedup payload included.
C1_BudgetCapsPulled ==
    IsDedup => /\ pos <= args.max_messages
               /\ (pc = "done" /\ pos >= args.max_messages => pos = args.max_messages)

\* C2: with a store that is empty at the start, the Scan Result of a scan that
\* ends normally has scanned = the number of polled records with a payload and
\* duplicates = the number of those whose token an earlier record with a
\* payload carries.
C2_ScanResult ==
    pc = "done" =>
        /\ summaries = << [scanned |-> count, found |-> duplicates] >>
        /\ count = Cardinality({ n \in 1..pos : Present(n) })
        /\ duplicates = Cardinality(Repeats(pos))

\* values v1, v2, v1 in value mode: 3 scanned, 1 duplicate, the third record
C2_Witness ==
    /\ pc = "done"
    /\ args.field = <<>> /\ args.dedup_by = "value"
    /\ pos = 3 /\ count = 3 /\ duplicates = 1
    /\ topic[1].value = topic[3].value
    /\ topic[1].value # topic[2].value
    /\ Repeats(3) = {3}

\* What the store holds for good: the set, or the committed rows.
StoreTokens == IF args.sqlite THEN dbDisk ELSE seen

\* One completed check-and-insert of the token h.
CompletedCheck ==
    pc \in {"classify", "commit"} /\ pc' = "emit" =>
        /\ is_duplicate' = (h \in firsts)
        /\ is_duplicate' = (h \in StoreTokens)
        /\ StoreTokens' = StoreTokens \cup {h}

\* C3: with either store, a check-and-insert of token T that completes answers
\* 'duplicate' exactly when a check-and-insert of T completed before, and
\* leaves the store holding what it held plus T: the first leaves T in the
\* store, the second, third, ... leave the store as it was.
C3_CheckAndInsert == [][CompletedCheck]_vars

\* the third check-and-insert of one token, on the sqlite store
C3_Witness ==
    /\ pc = "emit" /\ args.sqlite
    /\ pos = 3 /\ duplicates = 1 /\ is_duplicate
    /\ Present(1) /\ Present(2) /\ Present(3)
    /\ TokenOf(1) = TokenOf(2) /\ TokenOf(2) = TokenOf(3)
    /\ dbDisk = {h}

\* C4: with the sqlite store, a token whose INSERT an earlier invocation
\* committed is classified as a duplicate in every later invocation on the
\* same file, and so is every record that an earlier invocation had finished.
C4_DurableAcrossRuns ==
    pc = "emit" /\ (h \in insertedEarlier \/ pos <= finishedEarlier) => is_duplicate

\* the second run meets the first record of the first run
C4_Witness ==
    /\ inv = 2 /\ pc = "emit" /\ is_duplicate
    /\ h \in insertedEarlier /\ pos <= finishedEarlier
    /\ firsts = {} /\ duplicates = 0

\* C5: with the sqlite store no INSERT is pending when the next record is
\* polled, and at every point, a crash and the runs after it included, the
\* committed rows hold the token of every record classified as new whose
\* iteration finished.
C5_CommittedBeforeNextPoll ==
    /\ firsts \cup firstsEarlier \subseteq dbDisk
    /\ pc \in {"loop", "extract"} => dbPending = {}

\* killed after two first occurrences
C5_Witness ==
    /\ pc = "crashed"
    /\ Cardinality(firsts) = 2
    /\ firsts \subseteq dbDisk

\* C6: with an output file, each time the loop is back at its condition and
\* at the normal end, the file holds one data row per duplicate counted, and
\* the rows are those of the records that repeat an earlier token.
C6_OneRowPerDuplicate ==
    args.output # <<>> /\ pc \in {"loop", "done"} =>
        /\ Cardinality(DataRows) = duplicates
        /\ { file[n].offset : n \in DataRows } = Repeats(finished)

\* two duplicates written as csv
C6_Witness ==
    /\ pc = "loop" /\ output_file = "open"
    /\ output_format = <<"csv">>
    /\ duplicates = 2
    /\ Len(file) = 3

\* C7: once the loop has started, every way of leaving it ends with the
\* consumer closed by exactly one call of close(), the sqlite connection
\* closed if one was opened and the output file closed if one was opened.
C7_ClosedOnEveryExit ==
    /\ closes <= 1
    /\ pc \in {"done", "raised"} /\ exit \in LoopExits =>
           /\ closes = 1
           /\ consumer = "closed"
           /\ db = (IF args.sqlite THEN "closed" ELSE "none")
           /\ output_file = (IF args.output # <<>> THEN "closed" ELSE "none")

\* Ctrl-C with a sqlite store and an output file
C7_Witness ==
    /\ pc = "raised" /\ exit = "KeyboardInterrupt"
    /\ closes = 1 /\ db = "closed" /\ output_file = "closed"
    /\ count = 1

\* C8: a failure of the setup (the sqlite file cannot be opened, the output
\* file cannot be opened) closes what was acquired before it: the consumer,
\* and the sqlite connection when the output file is what failed.
C8_SetupFailureCloses ==
    pc = "raised" /\ exit \in SetupExits =>
        /\ consumer = "closed"
        /\ db # "open"

\* C9: when a required --topic is missing the process exits non-zero with no
\* consumer, store or output file created.
C9_ConfigErrorBeforeResources ==
    pc = "exit1" =>
        /\ consumer = "none"
        /\ db = "none"
        /\ output_file = "none"

\* C10: with --field, extraction never ends the scan: whatever the value of a
\* record is, the loop is not left by an exception of the extraction.
C10_ExtractionNeverAborts ==
    args.field # <<>> => exit \notin {"TypeError", "UnicodeDecodeError"}

-----------------------------------------------------------------------------
\* What --field addresses, from the JSON text alone

\* The keys of a field path, in order.
PathKeys == Split(args.field, ".")

\* The member of an object that a key names: the last one with that key.
Member(node, key) ==
    node.m[CHOOSE n \in 1..Len(node.m) :
               node.m[n][1] = key /\ \A j \in (n + 1)..Len(node.m) : node.m[j][1] # key][2]

\* Every key of the path names a member that is there, in an object.
RECURSIVE PathPresent(_, _)
PathPresent(node, keys) ==
    \/ keys = <<>>
    \/ /\ node.t = "obj"
       /\ \E n \in 1..Len(node.m) : node.m[n][1] = Head(keys)
       /\ PathPresent(Member(node, Head(keys)), Tail(keys))

\* The value at the end of a path that is present.
RECURSIVE Addressed(_, _)
Addressed(node, keys) ==
    IF keys = <<>> THEN node ELSE Addressed(Member(node, Head(keys)), Tail(keys))

\* Two JSON values are the same value: objects by their keys, whatever the
\* order of the members in the text, arrays element by element.
RECURSIVE SameJson(_, _)
SameJson(a, b) ==
    /\ a.t = b.t
    /\ a.v = b.v
    /\ Len(a.m) = Len(b.m)
    /\ IF a.t = "obj"
       THEN /\ { a.m[n][1] : n \in 1..Len(a.m) } = { b.m[n][1] : n \in 1..Len(b.m) }
            /\ \A n \in 1..Len(a.m) :
                   SameJson(Member(a, a.m[n][1]), Member(b, a.m[n][1]))
       ELSE \A n \in 1..Len(a.m) : SameJson(a.m[n][2], b.m[n][2])

ExtractionYields ==
    /\ pc = "extract"
    /\ msg.value.kind = "json"
    /\ PathPresent(msg.value.doc, PathKeys)
    => pc' = "classify"

\* C11: with --field, a record whose value is well-formed JSON in which every
\* key of the path names a member that is there yields a payload, whatever
\* the value at the end of the path is: the record goes on to classification.
C11_PresentPathYieldsPayload == [][ExtractionYields]_vars

\* The record at offset n has a value at the end of the path.
HasAddressed(n) ==
    topic[n].value.kind = "json" /\ PathPresent(topic[n].value.doc, PathKeys)

AddressedOf(n) == Addressed(topic[n].value.doc, PathKeys)

\* C12: with --field, a record that is classified is a duplicate exactly when
\* an earlier record addresses the same JSON value, whatever the order of the
\* keys of the objects in the two texts and whatever else the two values hold
\* outside the path.
C12_KeyOrderIrrelevant ==
    pc = "emit" =>
        is_duplicate = (\E j \in 1..(pos - 1) :
                            HasAddressed(j) /\ SameJson(AddressedOf(j), AddressedOf(pos)))

\* {"i":{"a":1,"x":2},"x":9} then {"z":3,"i":{"x":2,"a":1}} under --field i
C12_Witness ==
    /\ pc = "emit"
    /\ pos = 2
    /\ is_duplicate
    /\ AddressedOf(1).t = "obj"
    /\ AddressedOf(1).m # AddressedOf(2).m
    /\ topic[1].value.doc.m[2] # topic[2].value.doc.m[1]

-----------------------------------------------------------------------------
\* C13: --silent changes the console only: the run with --silent, on the
\* records, command line and empty store of the run without it, ends where
\* that run ended (normally or by the same exception), with the same counts,
\* the same tokens in the store and the same rows in the output file.
C13_SilentOnlyConsole ==
    inv = 2 /\ pc \in Terminal => Outcome = outcomeEarlier

-----------------------------------------------------------------------------
\* C14: with --output out:csv, from the moment the file is open to the end of
\* the run, the file holds exactly one header row and it is the first row,
\* whether the scan finds duplicates or not.
C14_OneHeaderFirst ==
    args.output = <<"out", ":", "csv">> /\ output_file # "none" =>
        /\ Len(file) >= 1
        /\ file[1].header
        /\ \A n \in 2..Len(file) : ~file[n].header

\* a scan of two records that ends normally without a duplicate
C14_Witness ==
    /\ args.output = <<"out", ":", "csv">>
    /\ pc = "done"
    /\ pos = 2
    /\ duplicates = 0
    /\ file = <<HeaderRow>>

-----------------------------------------------------------------------------
\* C15: in every format, each row written for a duplicate carries timestamp,
\* partition, offset, key and value of its record, in this order, the key of
\* a record without key as the empty string or as null.
C15_FiveFields ==
    \A n \in DataRows :
        LET m == topic[file[n].offset]
        IN  /\ file[n].cols = Columns
            /\ file[n].ts = Timestamp(m)
            /\ file[n].partition = Partition(m)
            /\ file[n].key \in (IF Truthy(m.key) THEN {Decode(m.key)}
                                 ELSE {EmptyText, NullText})
            /\ file[n].value = Decode(m.value)

-----------------------------------------------------------------------------
\* The store keeps its tokens over one step: the committed rows of the sqlite
\* file always, the in-memory set as long as the process lives.
StoreKeeps ==
    IF args.sqlite THEN dbDisk \subseteq dbDisk'
    ELSE pc' # "crashed" => seen \subseteq seen'

\* C16: no step removes a token from the store: not a poll, a skip, a
\* classification, an emission, a failure or the teardown, and with --sqlite
\* not the end of the process or the start of the next invocation either.
C16_StoreOnlyGrows == [][StoreKeeps]_vars

\* the second invocation has added a token to the one the first left
C16_Witness ==
    /\ args.sqlite
    /\ inv = 2
    /\ pc = "done"
    /\ insertedEarlier # {}
    /\ inserted # {}
    /\ dbDisk = insertedEarlier \cup inserted

-----------------------------------------------------------------------------
\* C17: the summary line is printed at most once; when it is there the loop
\* has ended by exhaustion or by the budget and the consumer, the sqlite
\* connection and the output file are closed; a scan that ended normally has
\* printed it, a scan that ended by an exception has not.
C17_SummaryOnceAfterClose ==
    /\ Len(summaries) <= 1
    /\ Len(summaries) = 1 =>
           /\ exit \in {"exhausted", "budget"}
           /\ consumer = "closed"
           /\ db # "open"
           /\ output_file # "open"
    /\ pc = "done" => Len(summaries) = 1
    /\ pc = "raised" => summaries = <<>>

\* the budget ends a scan with a sqlite store and an output file
C17_Witness ==
    /\ pc = "done"
    /\ exit = "budget"
    /\ Len(summaries) = 1
    /\ db = "closed"
    /\ output_file = "closed"
    /\ closes = 1

-----------------------------------------------------------------------------
\* What --output has after its first ':', nothing when it has none.
NamedFormat == IF Len(args.output) >= 3 THEN args.output[3] ELSE ""

\* C18: when --output names no format, or one that is neither jsonl nor csv
\* (in either case of the letters), the file holds text blocks only, no csv
\* header and no JSON line, and one block per duplicate each time the loop is
\* back at its condition and at the normal end.
C18_UnknownFormatIsText ==
    args.output # <<>> /\ NamedFormat \notin {"jsonl", "JSONL", "csv", "CSV"} =>
        /\ \A n \in 1..Len(file) : file[n].fmt = "text" /\ ~file[n].header
        /\ pc \in {"loop", "done"} => Len(file) = duplicates

\* one duplicate written under --output out:xml
C18_Witness ==
    /\ args.output = <<"out", ":", "xml">>
    /\ pc = "done"
    /\ duplicates = 1
    /\ Len(file) = 1
    /\ file[1] = TextRow(topic[2])

-----------------------------------------------------------------------------
\* C19: --search and --peek close the consumer by exactly one call of close()
\* on every way out of their poll loop (end of the topic, budget or peek
\* count reached, error event, any other exception), and --search never
\* polls more than --max-messages records.
C19_InspectClosesOnce ==
    /\ closes <= 1
    /\ pc \in {"peek show", "returned", "raised"} => closes = 1 /\ consumer = "closed"
    /\ args.search => pos <= args.max_messages

\* a search stopped by its budget before the end of the topic
C19_Witness ==
    /\ args.search
    /\ pc = "returned"
    /\ exit = "budget"
    /\ pos = args.max_messages
    /\ pos < Len(topic)
    /\ closes = 1

Min(a, b) == IF a < b THEN a ELSE b

\* The records --peek N is to display, from the topic alone.
PeekExpected ==
    LET n == Min(Abs(args.peek), Len(topic))
    IN  IF args.peek < 0 THEN SubSeq(topic, 1, n)
        ELSE SubSeq(topic, Len(topic) - n + 1, Len(topic))

\* C20: every non-zero N selects --peek, and a peek whose poll loop ended by
\* itself has displayed min(|N|, records of the topic) records in the order
\* of delivery: for a negative N the first |N|, with no record polled beyond
\* them, for a positive N the last N.
C20_PeekDisplays ==
    /\ args.peek # 0 /\ pc # "main" =>
           pc \in {"peek", "peek finally", "peek show", "returned", "raised"}
    /\ args.peek # 0 /\ pc \in {"returned", "raised"} /\ exit \in {"exhausted", "count"} =>
           /\ displayed = PeekExpected
           /\ args.peek < 0 => pos = Len(PeekExpected)

-----------------------------------------------------------------------------
\* C21: every scan comes to an end, on a source that never goes idle too:
\* the budget stops the loop however many of the delivered records have no
\* dedup payload.
C21_ScanTerminates == <>(pc \in Terminal)

-----------------------------------------------------------------------------
\* The scan is by key.
ByKey == IsDedup /\ args.dedup_by = "key" /\ args.field = <<>>

\* The step is not one that the operator, the kernel or the disk forces.
QuietStep ==
    pc' # "crashed" /\ exit' \notin {"KeyboardInterrupt", "OSError", "sqlite3.Error", "KafkaException"}

\* In a scan by key: a record with a key goes on to classification, and a
\* record classified as a duplicate is counted, written to the output file
\* when there is one, and the loop is back at its condition.
KeyAlone ==
    ByKey /\ QuietStep =>
        /\ pc = "extract" /\ Truthy(msg.key) => pc' = "classify"
        /\ pc = "extract" /\ ~Truthy(msg.key) => pc' = "loop"
        /\ pc = "emit" /\ is_duplicate =>
               /\ pc' = "loop"
               /\ duplicates' = duplicates + 1
               /\ count' = count + 1
               /\ output_file = "open" => Len(file') = Len(file) + 1

\* C22: in a scan by key the key alone decides: a record with a key whose
\* token the store holds is counted as a duplicate, written to the output
\* file and followed by the next poll, whatever its value is, no value
\* included; only a record without key is skipped.
C22_KeyModeIgnoresValue == [][KeyAlone]_vars

-----------------------------------------------------------------------------
\* What a failure of the store must leave as it is.
Kept == << pos, count, duplicates, dbDisk, file, printed >>

\* A statement of the store fails: the loop is left with nothing counted or
\* written; then the finally block closes everything and nothing else runs.
StoreFailureFatal ==
    /\ pc \in {"classify", "commit"} /\ exit' = "sqlite3.Error" =>
           pc' = "finally" /\ UNCHANGED Kept
    /\ pc = "finally" /\ exit = "sqlite3.Error" /\ pc' # "crashed" =>
           /\ pc' = "raised"
           /\ consumer' = "closed"
           /\ db' = "closed"
           /\ output_file' # "open"
           /\ dbPending' = {}
           /\ UNCHANGED Kept
    /\ pc = "raised" /\ exit = "sqlite3.Error" => UNCHANGED vars

\* C23: a lookup or insert of the store that fails during the scan ends the
\* scan: no record is polled, classified or emitted after it, the record at
\* hand is counted neither as scanned nor as duplicate, the committed rows
\* and the output file stay as they were, and the finally block runs.
C23_StoreFailureFatal == [][StoreFailureFatal]_vars

\* the insert of the second record's token fails
C23_Witness ==
    /\ pc = "raised"
    /\ exit = "sqlite3.Error"
    /\ pos = 2
    /\ count = 1
    /\ Cardinality(dbDisk) = 1
    /\ h \notin dbDisk
    /\ db = "closed"
    /\ closes = 1

-----------------------------------------------------------------------------
\* C24: from an empty store the run with --sqlite, on the records and command
\* line of the run with the in-memory store, ends where that run ended, with
\* the same counts, the same tokens in the store, the same rows in the output
\* file and the same records classified as first occurrences.
C24_BackendsInterchangeable ==
    inv = 2 /\ pc \in Terminal =>
        /\ Outcome = outcomeEarlier
        /\ firsts = firstsEarlier

\* both runs have found one duplicate and written it
C24_Witness ==
    /\ inv = 2
    /\ args.sqlite
    /\ pc = "done"
    /\ pos = 2
    /\ duplicates = 1
    /\ Len(file) >= 1
    /\ outcomeEarlier.store = dbDisk
    /\ outcomeEarlier.duplicates = 1

-----------------------------------------------------------------------------
\* The record has no dedup payload: no key in a scan by key, no value in a
\* scan by value, and with --field a value that is missing, is not JSON or
\* does not hold the path.
PayloadAbsent(m) ==
    IF args.field # <<>>
    THEN m.value.kind # "json" \/ ~PathPresent(m.value.doc, PathKeys)
    ELSE IF args.dedup_by = "value" THEN ~Truthy(m.value)
    ELSE ~Truthy(m.key)

\* The extraction of a record without payload goes back to the loop
\* condition and leaves counters, store, console and output file alone.
SkipChangesNothing ==
    IsDedup /\ pc = "extract" /\ PayloadAbsent(msg) /\ QuietStep =>
        /\ pc' = "loop"
        /\ UNCHANGED << count, duplicates, seen, dbDisk, dbPending, printed, file >>

\* C25: the iteration of a record without dedup payload changes nothing but
\* the position in the source: scanned count, duplicate count, store, console
\* and output file stay as they are and the loop polls again.
C25_SkipChangesNothing == [][SkipChangesNothing]_vars

-----------------------------------------------------------------------------
\* C26: the record that is extracted, classified and emitted is the one
\* polled last; when the next record is polled the store holds the token of
\* every record polled so far that has one; the rows of the output file are
\* in the order of the offsets; and a token that is classified as a first
\* occurrence has not been classified so before in this invocation.
C26_InDeliveryOrder ==
    /\ pc \in {"extract", "classify", "commit", "emit"} => msg = topic[pos]
    /\ pc = "loop" => \A n \in 1..pos : Present(n) => TokenOf(n) \in StoreTokens
    /\ \A i, j \in DataRows : i < j => file[i].offset < file[j].offset
    /\ pc = "emit" /\ ~is_duplicate => h \notin firsts

\* the second and the third record repeat the first, written as JSON lines
C26_Witness ==
    /\ pc = "loop"
    /\ pos = 3
    /\ output_format = <<"jsonl">>
    /\ Len(file) = 2
    /\ file[1].offset = 2
    /\ file[2].offset = 3
    /\ Cardinality(StoreTokens) = 1

-----------------------------------------------------------------------------
\* The tokens this invocation has put into its store.
InsertedNow == IF args.sqlite THEN inserted ELSE seen

\* C27: each time the loop is at its condition and at the normal end,
\* 0 <= duplicates <= count <= --max-messages, and count is duplicates plus
\* the number of tokens this invocation has inserted into the store (with
\* the in-memory store: plus the size of `seen`).
C27_CounterInvariant ==
    IsDedup /\ pc \in {"loop", "done"} =>
        /\ 0 <= duplicates
        /\ duplicates <= count
        /\ count <= args.max_messages
        /\ count = duplicates + Cardinality(InsertedNow)

\* the second invocation on a sqlite file: one duplicate, one new token
C27_Witness ==
    /\ args.sqlite
    /\ inv = 2
    /\ pc = "done"
    /\ count = 2
    /\ duplicates = 1
    /\ Cardinality(inserted) = 1
    /\ Cardinality(dbDisk) = 2

====
